---- MODULE Spec2Model ----
(***************************************************************************)
(* A model of OmniDimensionService                                         *)
(* (backend/src/services/omnidimension_service.py): the retry wrapper, the *)
(* response normalizer, the agent manager, the call dispatcher, the        *)
(* status and log readers and the reservation orchestrator, as a state     *)
(* machine over the agent cache, the call history, the clock and the       *)
(* position of the single caller.                                          *)
(*                                                                         *)
(* The service is synchronous and single-threaded.  A step of the model is *)
(* the code between two interactions with the outside: an invocation of    *)
(* the external client, or a time.sleep of the retry wrapper.              *)
(***************************************************************************)
EXTENDS Integers, Sequences, FiniteSets, TLC

(***************************************************************************)
(* Bounds of the model.                                                    *)
(***************************************************************************)
\* Number of invocations of the service's methods in one behaviour.
MaxOps == 2
\* Largest reading of the clock (seconds since the service was constructed).
MaxClock == 1
\* Largest number of digits, and of other characters, in a phone string given
\* to the phone validator on its own.
MaxPhoneDigits == 16
MaxPhoneOther == 2

(***************************************************************************)
(* Python values.  A value carries its type in t; a str is kept as a TLA+  *)
(* string, except phone numbers, whose characters the code inspects and    *)
(* which are kept as a sequence of characters, and f-strings that          *)
(* interpolate a value, which are kept as the sequence of their parts.     *)
(***************************************************************************)
None == [t |-> "none"]
Str(s) == [t |-> "str", v |-> s]
Chars(cs) == [t |-> "chars", v |-> cs]
Fmt(parts) == [t |-> "fstr", v |-> parts]
Num(n) == [t |-> "int", v |-> n]
Bool(b) == [t |-> "bool", v |-> b]
\* The str that strftime("%Y-%m-%d %H:%M:%S") gives for clock reading n: one
\* string per second, ordered as the readings are.
Stamp(n) == [t |-> "timestr", v |-> n]
Dict(f) == [t |-> "dict", v |-> f]
List(s) == [t |-> "list", v |-> s]
Tuple(s) == [t |-> "tuple", v |-> s]
EmptyDict == Dict([k \in {} |-> None])

\* Python truthiness: bool(x).
Truthy(x) ==
    CASE x.t = "none" -> FALSE
      [] x.t = "str" -> Len(x.v) > 0
      [] x.t = "chars" -> Len(x.v) > 0
      [] x.t = "fstr" -> TRUE
      [] x.t = "timestr" -> TRUE
      [] x.t = "int" -> x.v # 0
      [] x.t = "bool" -> x.v
      [] x.t = "dict" -> DOMAIN x.v # {}
      [] x.t = "list" -> Len(x.v) > 0
      [] x.t = "tuple" -> Len(x.v) > 0

IsDict(x) == x.t = "dict"
\* d.get(k, default) and d.get(k) of a dict d.
GetOr(d, k, default) == IF k \in DOMAIN d.v THEN d.v[k] ELSE default
Get(d, k) == GetOr(d, k, None)
\* {**d, k: x}
With(d, k, x) == Dict([j \in DOMAIN d.v \cup {k} |-> IF j = k THEN x ELSE d.v[j]])
\* x or y
Or(x, y) == IF Truthy(x) THEN x ELSE y

\* An exception: its class and the parts of its message, str(e).
Exc(type, msg) == [type |-> type, msg |-> msg]
ErrStr(e) == Fmt(e.msg)
\* x.get(...) on a value that is no dict.
AttributeError == Exc("AttributeError", <<"object has no attribute 'get'">>)

(***************************************************************************)
(* Configuration set by the constructor.                                   *)
(***************************************************************************)
max_retries == 3
retry_delay == 2
test_phone == Chars(<<"+", "9", "1", "9", "5", "4", "8", "9", "9", "9", "1", "2", "9">>)

(***************************************************************************)
(* Utility methods.                                                        *)
(***************************************************************************)
Digits == {"0", "1", "2", "3", "4", "5", "6", "7", "8", "9"}
IsDigit(c) == c \in Digits
NotPlus(c) == c # "+"

\* _handle_response: unwrap a response envelope.
_handle_response(response) ==
    IF IsDict(response)
    THEN IF "json" \in DOMAIN response.v THEN response.v["json"] ELSE response
    ELSE response

\* The digits kept by ''.join(filter(str.isdigit, phone.replace('+', ''))).
clean_phone(phone) == SelectSeq(SelectSeq(phone.v, NotPlus), IsDigit)

\* (a variant that takes 15 digits for too many)
_validate_phone_number_below_15(phone) ==
    IF ~Truthy(phone)
    THEN FALSE
    ELSE Len(clean_phone(phone)) >= 10 /\ Len(clean_phone(phone)) < 15

\* _validate_phone_number
_validate_phone_number(phone) ==
    IF ~Truthy(phone)
    THEN FALSE
    ELSE Len(clean_phone(phone)) >= 10 /\ Len(clean_phone(phone)) <= 15

required_fields == <<"name", "welcome_message", "call_type">>

\* _validate_agent_config: None when the configuration passes, else the
\* ValueError naming the first missing required field.
_validate_agent_config(config) ==
    LET missing == {i \in 1..Len(required_fields) : ~Truthy(Get(config, required_fields[i]))}
    IN IF missing = {}
       THEN None
       ELSE LET first == CHOOSE i \in missing : \A j \in missing : i <= j
            IN Exc("ValueError", <<"Agent configuration missing required field: ", required_fields[first]>>)

\* (a variant without backoff)
wait_time_fixed(att) == retry_delay

\* wait_time = self.retry_delay * (2 ** attempt)
wait_time_of(att) == retry_delay * (2 ^ att)

(***************************************************************************)
(* State.                                                                  *)
(***************************************************************************)
VARIABLES
    mock_mode,        \* self.mock_mode
    agents_cache,     \* self.agents_cache: agent id -> agent data
    call_history,     \* self.call_history
    clock,            \* the last reading of the clock
    pc,               \* where the caller is: "idle", or the interaction it is about to make
    op,               \* the method the caller invoked last, with its arguments
    api_func,         \* the client function the code is about to invoke
    api_args,         \* its arguments
    attempt,          \* _retry_api_call: attempt
    last_exception,   \* _retry_api_call: last_exception
    agent_id,         \* make_restaurant_reservation: agent_id
    agent_data,       \* make_restaurant_reservation: agent_data
    target_phone,     \* make_restaurant_reservation: target_phone
    call_id,          \* make_restaurant_reservation: call_id
    call_data,        \* make_restaurant_reservation: call_data
    result,           \* what the last invocation returned or raised
    trace,            \* invocations and sleeps of the current _retry_api_call
    preflight,        \* make_call: what its pre-flight check of the agent found, until it returns
    ext_log,          \* calls on the client since the current method was invoked; a call
                      \* the wrapper retries is listed once, its invocations are in trace
    returned_agents,  \* agent ids create_restaurant_agent has returned so far
    entry,            \* agent cache and call history when the current method was invoked
    nops              \* methods invoked so far

vars == <<mock_mode, agents_cache, call_history, clock, pc, op, api_func, api_args,
          attempt, last_exception, agent_id, agent_data, target_phone, call_id,
          call_data, result, trace, preflight, ext_log, returned_agents, entry, nops>>

\* The state as a record; `reads` are the readings the clock gives in this step,
\* in order.
St(reads) ==
    [mock_mode |-> mock_mode, agents_cache |-> agents_cache, call_history |-> call_history,
     clock |-> clock, pc |-> pc, op |-> op, api_func |-> api_func, api_args |-> api_args,
     attempt |-> attempt, last_exception |-> last_exception, agent_id |-> agent_id,
     agent_data |-> agent_data, target_phone |-> target_phone, call_id |-> call_id,
     call_data |-> call_data, result |-> result, trace |-> trace, preflight |-> preflight,
     ext_log |-> ext_log,
     returned_agents |-> returned_agents, entry |-> entry, nops |-> nops, reads |-> reads]

\* The step leaves the state m that n evaluates to.
Becomes(n) ==
    \E m \in {n} :
       /\ mock_mode' = m.mock_mode
       /\ agents_cache' = m.agents_cache
       /\ call_history' = m.call_history
       /\ clock' = m.clock
       /\ pc' = m.pc
       /\ op' = m.op
       /\ api_func' = m.api_func
       /\ api_args' = m.api_args
       /\ attempt' = m.attempt
       /\ last_exception' = m.last_exception
       /\ agent_id' = m.agent_id
       /\ agent_data' = m.agent_data
       /\ target_phone' = m.target_phone
       /\ call_id' = m.call_id
       /\ call_data' = m.call_data
       /\ result' = m.result
       /\ trace' = m.trace
       /\ preflight' = m.preflight
       /\ ext_log' = m.ext_log
       /\ returned_agents' = m.returned_agents
       /\ entry' = m.entry
       /\ nops' = m.nops

\* Non-decreasing sequences of n clock readings, none before the last one.
RECURSIVE Readings(_, _)
Readings(from, n) ==
    IF n = 0
    THEN {<<>>}
    ELSE UNION {{<<r>> \o rest : rest \in Readings(r, n - 1)} : r \in from..MaxClock}

\* time.time() and datetime.now(UTC): the next reading of the clock (the clock as
\* it was last read, in a step for which no further reading is drawn).
Now(s) == IF s.reads = <<>> THEN s.clock ELSE Head(s.reads)
Read(s) == IF s.reads = <<>> THEN s ELSE [s EXCEPT !.clock = Head(s.reads), !.reads = Tail(s.reads)]

\* _now
_now(s) == Stamp(Now(s))
\* _tomorrow: the date one day after today's.  A behaviour of the model spans
\* seconds, within one day.
_tomorrow == Str("<tomorrow>")

\* The method is over and its locals, and those of the methods it called, are gone.
Unwind(s) ==
    [s EXCEPT !.pc = "idle", !.api_func = "none", !.api_args = None, !.attempt = 0,
              !.last_exception = None, !.agent_id = None, !.agent_data = None,
              !.target_phone = None, !.call_id = None, !.call_data = None,
              !.preflight = "none"]

\* The caller gets a value back, or an exception.
Return(s, val) == [Unwind(s) EXCEPT !.result = [kind |-> "return", val |-> val]]
Raise(s, e) == [Unwind(s) EXCEPT !.result = [kind |-> "raise", val |-> e]]

InReservation(s) == s.op.name = "make_restaurant_reservation"
restaurant_info_of(s) == s.op.args[1]
reservation_details_of(s) == s.op.args[2]
customer_info_of(s) == s.op.args[3]

(***************************************************************************)
(* _retry_api_call                                                         *)
(***************************************************************************)
\* Enter the retry wrapper: last_exception = None, and the loop's first pass.
retry_enter(s, fn, args) ==
    [s EXCEPT !.pc = "retry_call", !.api_func = fn, !.api_args = args,
              !.attempt = 0, !.last_exception = None, !.trace = <<>>]

\* (a variant that sleeps after every failed attempt, the last one too)
waits_after_every_failure(att) == att < max_retries

\* if attempt < self.max_retries - 1: sleep before the next pass.
waits_after(att) == att < max_retries - 1

\* (a variant whose loop makes one pass too many)
has_next_attempt_off_by_one(att) == att < max_retries

\* for attempt in range(self.max_retries): whether a pass follows pass `att`.
has_next_attempt(att) == att + 1 < max_retries

\* The exception the wrapper raises once the loop is over.
exhausted_exception(s) == s.last_exception

(***************************************************************************)
(* make_restaurant_reservation, after its validation                       *)
(***************************************************************************)
\* The except clause: the failure-tagged result.
failure_result(s, e) ==
    Dict([success |-> Bool(FALSE),
          error |-> ErrStr(e),
          timestamp |-> _now(s),
          restaurant |-> restaurant_info_of(s).v["name"],
          customer |-> Get(customer_info_of(s), "name"),
          reservation |-> reservation_details_of(s)])

\* (a variant without the try: the failure reaches the caller)
reservation_except_propagates(s, e) == Raise(s, e)

reservation_except(s, e) == Return(Read(s), failure_result(s, e))

\* The success-tagged result.
success_result(s, call_status) ==
    Dict([success |-> Bool(TRUE),
          agent_id |-> s.agent_id,
          call_id |-> s.call_id,
          agent_data |-> s.agent_data,
          call_data |-> s.call_data,
          call_status |-> call_status,
          timestamp |-> _now(s),
          restaurant |-> restaurant_info_of(s).v["name"],
          customer |-> Get(customer_info_of(s), "name"),
          reservation |-> reservation_details_of(s),
          target_phone |-> s.target_phone])

reservation_finish(s, call_status) == Return(Read(s), success_result(s, call_status))

\* call_context of make_restaurant_reservation.
call_context_of(restaurant_info, reservation_details, customer_info) ==
    Dict([reservation_date |-> GetOr(reservation_details, "date", _tomorrow),
          reservation_time |-> GetOr(reservation_details, "time", Str("7:00 PM")),
          number_of_guests |-> Fmt(<<GetOr(reservation_details, "party_size", Num(2))>>),
          special_requests |-> GetOr(reservation_details, "special_requests", Str("")),
          customer_name |-> Get(customer_info, "name"),
          customer_phone |-> GetOr(customer_info, "phone", Str("")),
          customer_email |-> GetOr(customer_info, "email", Str("")),
          restaurant_name |-> restaurant_info.v["name"],
          booking_type |-> Str("reservation"),
          urgency |-> Str("normal")])

(***************************************************************************)
(* get_call_status                                                         *)
(***************************************************************************)
mock_call_status(cid) ==
    Dict([id |-> cid,
          status |-> Str("mock_completed"),
          summary |-> Str("Mock reservation confirmed successfully."),
          duration |-> Num(45),
          transcript |-> Str("Mock conversation transcript")])

get_call_status_return(s, call_status) ==
    IF InReservation(s) THEN reservation_finish(s, call_status) ELSE Return(s, call_status)

get_call_status_raise(s, e) ==
    IF InReservation(s) THEN reservation_except(s, e) ELSE Raise(s, e)

\* After the retried get_call_log returned `response`.
get_call_status_after(s, response) == get_call_status_return(s, _handle_response(response))

\* (a variant that asks the provider in mock mode too)
get_call_status_always_real(s, cid) ==
    IF ~Truthy(cid)
    THEN get_call_status_raise(s, Exc("ValueError", <<"Call ID is required">>))
    ELSE retry_enter(s, "call.get_call_log", Tuple(<<cid>>))

get_call_status(s, cid) ==
    IF ~Truthy(cid)
    THEN get_call_status_raise(s, Exc("ValueError", <<"Call ID is required">>))
    ELSE IF s.mock_mode
         THEN get_call_status_return(s, mock_call_status(cid))
         ELSE retry_enter(s, "call.get_call_log", Tuple(<<cid>>))

(***************************************************************************)
(* make_call                                                               *)
(***************************************************************************)
\* The arguments make_call was invoked with: the caller's, or those
\* make_restaurant_reservation passes.
make_call_args(s) ==
    IF InReservation(s)
    THEN <<s.agent_id, s.target_phone,
           call_context_of(restaurant_info_of(s), reservation_details_of(s), customer_info_of(s))>>
    ELSE s.op.args

\* (a variant that falls back to the test number for every phone that is not valid)
resolved_phone_valid_or_test(phone_number) ==
    IF _validate_phone_number(phone_number) THEN phone_number ELSE test_phone

\* phone = phone_number or self.test_phone
resolved_phone(phone_number) == Or(phone_number, test_phone)

dispatch_args(s) ==
    Dict([agent_id |-> make_call_args(s)[1],
          to_number |-> resolved_phone(make_call_args(s)[2]),
          call_context |-> Or(Or(make_call_args(s)[3], EmptyDict), EmptyDict)])

make_call_return(s, cid, cdata) ==
    IF InReservation(s)
    THEN get_call_status([s EXCEPT !.call_id = cid, !.call_data = cdata, !.preflight = "none"], cid)
    ELSE Return(s, Tuple(<<cid, cdata>>))

\* (a variant whose orchestrator fetches a status although the dispatch failed)
make_call_raise_fetches_status(s, e) ==
    IF InReservation(s) THEN get_call_status(s, Str("unknown")) ELSE Raise(s, e)

make_call_raise(s, e) ==
    IF InReservation(s) THEN reservation_except(s, e) ELSE Raise(s, e)

\* (a variant that skips a record whose call identifier the history already has)
history_append_deduplicated(history, call_record) ==
    IF \E i \in 1..Len(history) :
          Or(Or(Get(history[i], "id"), Get(history[i], "call_id")), Get(history[i], "uuid"))
             = Or(Or(Get(call_record, "id"), Get(call_record, "call_id")), Get(call_record, "uuid"))
    THEN history
    ELSE Append(history, call_record)

\* self.call_history.append(call_record)
history_append(history, call_record) == Append(history, call_record)

\* (a variant whose record keeps a timestamp the call data already has)
make_call_record_keeps_timestamp(s, cid, cdata) ==
    make_call_return(
        [Read(s) EXCEPT !.call_history =
            history_append(s.call_history,
                           IF "timestamp" \in DOMAIN cdata.v
                           THEN cdata
                           ELSE With(cdata, "timestamp", _now(s)))],
        cid, cdata)

\* call_record = {**call_data, "timestamp": self._now()}, appended; then return.
make_call_record(s, cid, cdata) ==
    make_call_return(
        [Read(s) EXCEPT !.call_history = history_append(s.call_history, With(cdata, "timestamp", _now(s)))],
        cid, cdata)

\* (a variant that looks under uuid first)
extract_call_id_uuid_first(cdata) == Or(Or(Get(cdata, "uuid"), Get(cdata, "call_id")), Get(cdata, "id"))

\* call_data.get("id") or call_data.get("call_id") or call_data.get("uuid")
extract_call_id(cdata) == Or(Or(Get(cdata, "id"), Get(cdata, "call_id")), Get(cdata, "uuid"))

\* (a variant that records the call before it looks for the identifier)
make_call_after_records_first(s, response) ==
    LET cdata == _handle_response(response)
    IN IF ~IsDict(cdata)
       THEN make_call_raise(s, AttributeError)
       ELSE IF ~Truthy(extract_call_id(cdata))
            THEN make_call_raise(
                     [s EXCEPT !.call_history = history_append(@, With(cdata, "timestamp", _now(s)))],
                     Exc("ValueError", <<"Call dispatch failed - no call ID returned. Response: ", cdata>>))
            ELSE make_call_record(s, extract_call_id(cdata), cdata)

\* After the retried dispatch_call returned `response`.
make_call_after(s, response) ==
    LET cdata == _handle_response(response)
    IN IF ~IsDict(cdata)
       THEN make_call_raise(s, AttributeError)
       ELSE IF ~Truthy(extract_call_id(cdata))
            THEN make_call_raise(s, Exc("ValueError",
                     <<"Call dispatch failed - no call ID returned. Response: ", cdata>>))
            ELSE make_call_record(s, extract_call_id(cdata), cdata)

mock_call_id(time) == Str("mock_call_" \o ToString(time))

\* (a variant whose mock call data does not name the agent)
mock_call_data_without_agent(cid, aid, phone) ==
    Dict([id |-> cid, status |-> Str("mock_initiated"), phone_number |-> phone])

mock_call_data(cid, aid, phone) ==
    Dict([id |-> cid, status |-> Str("mock_initiated"), agent_id |-> aid, phone_number |-> phone])

\* make_call up to its first interaction with the client.
make_call(s, aid, phone_number, call_context) ==
    IF ~Truthy(aid)
    THEN make_call_raise(s, Exc("ValueError", <<"Agent ID is required">>))
    ELSE IF ~_validate_phone_number(resolved_phone(phone_number))
         THEN make_call_raise(s, Exc("ValueError",
                  <<"Invalid phone number: ", resolved_phone(phone_number)>>))
         ELSE IF s.mock_mode
              THEN make_call_record(Read(s), mock_call_id(Now(s)),
                       mock_call_data(mock_call_id(Now(s)), aid, resolved_phone(phone_number)))
              ELSE [s EXCEPT !.pc = "get_agent", !.api_func = "agent.get_agent",
                             !.api_args = Tuple(<<aid>>)]

\* The pre-flight check's verdict on what get_agent gave: the agent is
\* verified, verified with a warning about its voice, or could not be verified.
preflight_verdict(out) ==
    IF out.kind = "raise"
    THEN "could_not_verify"
    ELSE IF ~IsDict(_handle_response(out.val))
         THEN "could_not_verify"
         ELSE IF ~Truthy(Get(_handle_response(out.val), "voice_external_id"))
              THEN "verified_no_voice"
              ELSE "verified"

\* (a variant that gives up when the agent could not be verified)
make_call_after_preflight_strict(s, verdict) ==
    IF verdict = "could_not_verify"
    THEN make_call_raise(s, Exc("ValueError", <<"Could not verify agent">>))
    ELSE retry_enter([s EXCEPT !.preflight = verdict], "call.dispatch_call", dispatch_args(s))

\* After the pre-flight check, whatever its verdict: dispatch through the wrapper.
make_call_after_preflight(s, verdict) ==
    retry_enter([s EXCEPT !.preflight = verdict], "call.dispatch_call", dispatch_args(s))

(***************************************************************************)
(* create_restaurant_agent                                                 *)
(***************************************************************************)
agent_config_of(restaurant_name, customer_info) ==
    LET customer_name == GetOr(customer_info, "name", Str("Customer"))
        customer_email == GetOr(customer_info, "email", Str("customer@example.com"))
    IN Dict([name |-> Fmt(<<restaurant_name, " - Booking Assistant for ", customer_name>>),
             welcome_message |-> Fmt(<<"Hello! This is ", customer_name,
                                       " calling to make a reservation at ", restaurant_name>>),
             context_breakdown |-> List(<<
                 Dict([title |-> Str("Reservation Request"),
                       body |-> Fmt(<<"I am ", customer_name, " ... at ", restaurant_name>>)]),
                 Dict([title |-> Str("Customer Information"),
                       body |-> Fmt(<<"Customer Name: ", customer_name, ", Email: ", customer_email>>)]),
                 Dict([title |-> Str("Conversation Flow"),
                       body |-> Str("1. Greet the restaurant politely ...")])>>),
             call_type |-> Str("Outgoing"),
             voice_provider |-> Str("eleven_labs"),
             voice_external_id |-> Str("JBFqnCBsd6RMkjVDRZzb"),
             llm_service |-> Str("gpt-4o-mini"),
             bot_type |-> Str("prompt"),
             language |-> List(<<Str("en")>>),
             is_filler_enable |-> Bool(FALSE),
             filler_after_sec |-> Num(0),
             llm_straming_enabled |-> Bool(FALSE),
             enable_web_search |-> Bool(FALSE)])

\* self.agents_cache[agent_id] = agent_data
cache_put(cache, aid, adata) ==
    [k \in DOMAIN cache \cup {aid} |-> IF k = aid THEN adata ELSE cache[k]]

\* make_restaurant_reservation, once create_restaurant_agent returned.
reservation_after_create(s, aid, adata) ==
    LET phone == Or(Get(restaurant_info_of(s), "phone"), test_phone)
        s1 == [s EXCEPT !.agent_id = aid, !.agent_data = adata, !.target_phone = phone]
    IN make_call(s1, aid, phone,
                 call_context_of(restaurant_info_of(s), reservation_details_of(s), customer_info_of(s)))

create_restaurant_agent_return(s, aid, adata) ==
    LET s1 == [s EXCEPT !.returned_agents = @ \cup {aid}]
    IN IF InReservation(s)
       THEN reservation_after_create(s1, aid, adata)
       ELSE Return(s1, Tuple(<<aid, adata>>))

create_restaurant_agent_raise(s, e) ==
    IF InReservation(s) THEN reservation_except(s, e) ELSE Raise(s, e)

\* (a variant that returns the agent without caching it)
create_restaurant_agent_store_uncached(s, aid, adata) ==
    create_restaurant_agent_return(s, aid, adata)

\* The last two lines of create_restaurant_agent: cache the agent, return it.
create_restaurant_agent_store(s, aid, adata) ==
    create_restaurant_agent_return(
        [s EXCEPT !.agents_cache = cache_put(s.agents_cache, aid, adata)], aid, adata)

\* (a variant that caches the response before it looks for the identifier)
create_restaurant_agent_after_caches_first(s, response) ==
    LET adata == _handle_response(response)
    IN IF ~IsDict(adata)
       THEN create_restaurant_agent_raise(s, AttributeError)
       ELSE LET s1 == [s EXCEPT !.agents_cache = cache_put(s.agents_cache, Get(adata, "id"), adata)]
            IN IF ~Truthy(Get(adata, "id"))
               THEN create_restaurant_agent_raise(s1, Exc("ValueError",
                        <<"Agent creation failed - no ID returned. Response: ", adata>>))
               ELSE create_restaurant_agent_return(s1, Get(adata, "id"), adata)

\* After the retried agent.create returned `response`.
create_restaurant_agent_after(s, response) ==
    LET adata == _handle_response(response)
    IN IF ~IsDict(adata)
       THEN create_restaurant_agent_raise(s, AttributeError)
       ELSE IF ~Truthy(Get(adata, "id"))
            THEN create_restaurant_agent_raise(s, Exc("ValueError",
                     <<"Agent creation failed - no ID returned. Response: ", adata>>))
            ELSE create_restaurant_agent_store(s, Get(adata, "id"), adata)

mock_agent_id(time) == Str("mock_agent_" \o ToString(time))

\* create_restaurant_agent up to its first interaction with the client.
create_restaurant_agent(s, restaurant_name, customer_info) ==
    IF ~Truthy(restaurant_name)
    THEN create_restaurant_agent_raise(s, Exc("ValueError", <<"Restaurant name is required">>))
    ELSE LET agent_config == agent_config_of(restaurant_name, customer_info)
         IN IF _validate_agent_config(agent_config) # None
            THEN create_restaurant_agent_raise(s, _validate_agent_config(agent_config))
            ELSE IF s.mock_mode
                 THEN create_restaurant_agent_store(Read(s), mock_agent_id(Now(s)),
                          Dict([id |-> mock_agent_id(Now(s)), name |-> Get(agent_config, "name")]))
                 ELSE retry_enter(s, "agent.create", agent_config)

(***************************************************************************)
(* make_restaurant_reservation                                             *)
(***************************************************************************)
\* (a variant that leaves the phone to make_call)
reservation_validation_no_phone(restaurant_info, reservation_details, customer_info) ==
    IF ~Truthy(restaurant_info) \/ ~Truthy(Get(restaurant_info, "name"))
    THEN Exc("ValueError", <<"Restaurant info with name is required">>)
    ELSE IF ~Truthy(customer_info) \/ ~Truthy(Get(customer_info, "name"))
         THEN Exc("ValueError", <<"Customer info with name is required">>)
         ELSE IF ~Truthy(reservation_details)
              THEN Exc("ValueError", <<"Reservation details are required">>)
              ELSE None

\* (a variant that checks that restaurant_info is given, not that it has a name)
reservation_validation_no_name(restaurant_info, reservation_details, customer_info) ==
    IF ~Truthy(restaurant_info)
    THEN Exc("ValueError", <<"Restaurant info with name is required">>)
    ELSE IF ~Truthy(customer_info) \/ ~Truthy(Get(customer_info, "name"))
         THEN Exc("ValueError", <<"Customer info with name is required">>)
         ELSE IF ~Truthy(reservation_details)
              THEN Exc("ValueError", <<"Reservation details are required">>)
              ELSE IF Truthy(Get(restaurant_info, "phone"))
                      /\ ~_validate_phone_number(Get(restaurant_info, "phone"))
                   THEN Exc("ValueError", <<"Invalid restaurant phone number: ",
                                            Get(restaurant_info, "phone")>>)
                   ELSE None

\* The input validation: None when the inputs pass, else the ValueError raised.
reservation_validation(restaurant_info, reservation_details, customer_info) ==
    IF ~Truthy(restaurant_info) \/ ~Truthy(Get(restaurant_info, "name"))
    THEN Exc("ValueError", <<"Restaurant info with name is required">>)
    ELSE IF ~Truthy(customer_info) \/ ~Truthy(Get(customer_info, "name"))
         THEN Exc("ValueError", <<"Customer info with name is required">>)
         ELSE IF ~Truthy(reservation_details)
              THEN Exc("ValueError", <<"Reservation details are required">>)
              ELSE IF Truthy(Get(restaurant_info, "phone"))
                      /\ ~_validate_phone_number(Get(restaurant_info, "phone"))
                   THEN Exc("ValueError", <<"Invalid restaurant phone number: ",
                                            Get(restaurant_info, "phone")>>)
                   ELSE None

\* make_restaurant_reservation up to its first interaction with the client.
make_restaurant_reservation(s, restaurant_info, reservation_details, customer_info) ==
    IF reservation_validation(restaurant_info, reservation_details, customer_info) # None
    THEN Raise(s, reservation_validation(restaurant_info, reservation_details, customer_info))
    ELSE create_restaurant_agent(s, restaurant_info.v["name"], customer_info)

(***************************************************************************)
(* get_call_logs, get_agent_details, test_api_connection                   *)
(***************************************************************************)
Max(a, b) == IF a >= b THEN a ELSE b
Min(a, b) == IF a <= b THEN a ELSE b

\* list[i:] of Python: a negative i counts from the end, and both are clamped.
SliceFrom(list, i) ==
    LET n == Len(list)
        start == IF i < 0 THEN Max(n + i, 0) ELSE Min(i, n)
    IN SubSeq(list, start + 1, n)

mock_call_logs(history, page, page_size) ==
    Dict([data |-> List(SliceFrom(history, 0 - page_size)),
          pagination |-> Dict([page |-> Num(page),
                               page_size |-> Num(page_size),
                               total |-> Num(Len(history))])])

get_call_logs(s, aid, page, page_size) ==
    IF s.mock_mode
    THEN Return(s, mock_call_logs(s.call_history, page, page_size))
    ELSE retry_enter(s, "call.get_call_logs",
                     Dict([agent_id |-> aid, page |-> Num(page), page_size |-> Num(page_size)]))

get_agent_details(s, aid) ==
    IF s.mock_mode
    THEN Return(s, IF aid \in DOMAIN s.agents_cache
                   THEN s.agents_cache[aid]
                   ELSE Dict([id |-> aid, status |-> Str("mock")]))
    ELSE [s EXCEPT !.pc = "get_agent_details", !.api_func = "agent.get_agent",
                   !.api_args = Tuple(<<aid>>)]

test_api_connection(s) ==
    IF s.mock_mode
    THEN Return(s, Dict([status |-> Str("mock_mode"), api_accessible |-> Bool(FALSE)]))
    ELSE retry_enter(s, "call.get_call_logs", Dict([page_size |-> Num(1)]))

\* After the retried get_call_logs returned `response`, or the wrapper raised e.
get_call_logs_after(s, response) ==
    IF s.op.name = "test_api_connection"
    THEN Return(s, Dict([status |-> Str("connected"), api_accessible |-> Bool(TRUE),
                         response |-> response]))
    ELSE Return(s, _handle_response(response))

get_call_logs_raise(s, e) ==
    IF s.op.name = "test_api_connection"
    THEN Return(s, Dict([status |-> Str("error"), api_accessible |-> Bool(FALSE),
                         error |-> ErrStr(e)]))
    ELSE Raise(s, e)

(***************************************************************************)
(* The loop of _retry_api_call                                             *)
(***************************************************************************)
\* The wrapper returns what api_func returned, to the method that called it.
retry_return(s, response) ==
    CASE s.api_func = "agent.create" -> create_restaurant_agent_after(s, response)
      [] s.api_func = "call.dispatch_call" -> make_call_after(s, response)
      [] s.api_func = "call.get_call_log" -> get_call_status_after(s, response)
      [] s.api_func = "call.get_call_logs" -> get_call_logs_after(s, response)
      [] OTHER -> Return(s, response)

\* The wrapper raises e, into the except clause of the method that called it.
retry_raise(s, e) ==
    CASE s.api_func = "agent.create" -> create_restaurant_agent_raise(s, e)
      [] s.api_func = "call.dispatch_call" -> make_call_raise(s, e)
      [] s.api_func = "call.get_call_log" -> get_call_status_raise(s, e)
      [] s.api_func = "call.get_call_logs" -> get_call_logs_raise(s, e)
      [] OTHER -> Raise(s, e)

\* An entry of ext_log: the function and its arguments (of the keyword
\* arguments of agent.create, the agent's name).
logged(fn, args) ==
    [fn |-> fn, args |-> IF fn = "agent.create" THEN Get(args, "name") ELSE args]

\* (a variant that starts over once the attempts are used up)
retry_next_restarts(s) ==
    IF has_next_attempt(s.attempt)
    THEN [s EXCEPT !.attempt = @ + 1, !.pc = "retry_call"]
    ELSE [s EXCEPT !.attempt = 0, !.pc = "retry_call"]

\* The end of a pass of the loop: the next pass, or raise last_exception.
retry_next(s) ==
    IF has_next_attempt(s.attempt)
    THEN [s EXCEPT !.attempt = @ + 1, !.pc = "retry_call"]
    ELSE retry_raise(s, exhausted_exception(s))

\* One pass of the loop: api_func is invoked and returns or raises (out).
retry_invoke(s, out) ==
    LET s1 == [s EXCEPT !.trace = Append(@, [ev |-> "invoke", out |-> out]),
                        !.ext_log = IF s.attempt = 0
                                    THEN Append(@, logged(s.api_func, s.api_args))
                                    ELSE @]
    IN IF out.kind = "return"
       THEN retry_return(s1, out.val)
       ELSE IF waits_after(s.attempt)
            THEN [s1 EXCEPT !.last_exception = out.val, !.pc = "retry_sleep"]
            ELSE retry_next([s1 EXCEPT !.last_exception = out.val])

\* time.sleep(wait_time), then the end of the pass.
retry_sleep(s) ==
    retry_next([s EXCEPT !.trace = Append(@, [ev |-> "sleep", secs |-> wait_time_of(s.attempt)])])

(***************************************************************************)
(* The outside: what the client's functions return or raise, and what the  *)
(* caller passes.                                                          *)
(***************************************************************************)
Returned(v) == [kind |-> "return", val |-> v]
Raised(e) == [kind |-> "raise", val |-> e]

ConnectionError == Exc("ConnectionError", <<"connection refused">>)
HTTPError == Exc("HTTPError", <<"500 Server Error">>)

ProviderAgent == Dict([id |-> Str("agent_A"), voice_external_id |-> Str("JBFqnCBsd6RMkjVDRZzb")])
ProviderCall == Dict([id |-> Str("call_1"), call_id |-> Str("call_2"), uuid |-> Str("call_3")])
ProviderLog == Dict([id |-> Str("call_1"), status |-> Str("completed")])

\* What each client function may return: flat, wrapped under "json", without
\* the identifier, or no mapping at all.
Responses(fn) ==
    CASE fn = "agent.create" ->
            {ProviderAgent, Dict([json |-> ProviderAgent]),
             Dict([name |-> Str("no id")]), Str("<html>")}
      [] fn = "agent.get_agent" ->
            {ProviderAgent, Dict([id |-> Str("agent_A")]), Str("<html>")}
      [] fn = "call.dispatch_call" ->
            {ProviderCall, Dict([json |-> ProviderCall]),
             Dict([id |-> Str(""), call_id |-> Str("call_2"), timestamp |-> Stamp(0)]),
             Dict([uuid |-> Str("call_3")]),
             Dict([status |-> Str("queued")]), Str("<html>")}
      [] fn = "call.get_call_log" -> {ProviderLog, Dict([json |-> ProviderLog])}
      [] fn = "call.get_call_logs" -> {Dict([data |-> List(<<>>)])}
      [] OTHER -> {Str("value 1"), Str("value 2")}

\* How each client function may fail.
Failures(fn) ==
    IF fn = "operation" THEN {ConnectionError, HTTPError} ELSE {ConnectionError}

Outcomes(fn) == {Returned(r) : r \in Responses(fn)} \cup {Raised(e) : e \in Failures(fn)}

ValidPhone == Chars(<<"+", "9", "1", "9", "8", "7", "6", "5", "4", "3", "2", "1", "0">>)
InvalidPhone == Chars(<<"1", "2", "3", "4", "5">>)
EmptyPhone == Chars(<<>>)

PhoneInputs == {None, EmptyPhone, ValidPhone, InvalidPhone}
RestaurantNameInputs == {None, Str(""), Str("Spice Garden")}
RestaurantInputs ==
    {None, Dict([name |-> Str("")]), Dict([name |-> Str("Spice Garden")]),
     Dict([name |-> Str("Spice Garden"), phone |-> ValidPhone]),
     Dict([name |-> Str("Spice Garden"), phone |-> InvalidPhone]),
     Dict([name |-> Str("Spice Garden"), phone |-> EmptyPhone])}
ReservationInputs == {EmptyDict, Dict([date |-> Str("2025-06-23"), party_size |-> Num(4)])}
CustomerInputs == {EmptyDict, Dict([name |-> Str("Ayush Kumar")])}
AgentIdInputs == {Str(""), Str("agent_A")}
CallIdInputs == {Str(""), Str("call_1")}
CallContextInputs == {None, Dict([urgency |-> Str("normal")])}
PageInputs == {1, 2}
PageSizeInputs == {0, 1, 30}
LogFilterInputs == {None}

(***************************************************************************)
(* The state machine.                                                      *)
(***************************************************************************)
EmptyCache == [k \in {} |-> None]
NoResult == [kind |-> "none", val |-> None]

Init ==
    /\ mock_mode \in BOOLEAN
    /\ agents_cache = EmptyCache
    /\ call_history = <<>>
    /\ clock = 0
    /\ pc = "idle"
    /\ op = [name |-> "__init__", args |-> <<>>]
    /\ api_func = "none"
    /\ api_args = None
    /\ attempt = 0
    /\ last_exception = None
    /\ agent_id = None
    /\ agent_data = None
    /\ target_phone = None
    /\ call_id = None
    /\ call_data = None
    /\ result = NoResult
    /\ trace = <<>>
    /\ preflight = "none"
    /\ ext_log = <<>>
    /\ returned_agents = {}
    /\ entry = [agents_cache |-> EmptyCache, call_history |-> <<>>, clock |-> 0]
    /\ nops = 0

\* The caller invokes method `name`: its locals are fresh.
Begin(s, name, args) ==
    [s EXCEPT !.op = [name |-> name, args |-> args],
              !.result = NoResult, !.trace = <<>>, !.preflight = "none", !.ext_log = <<>>,
              !.entry = [agents_cache |-> s.agents_cache, call_history |-> s.call_history,
                         clock |-> s.clock],
              !.nops = @ + 1]

CanInvoke == pc = "idle" /\ nops < MaxOps

CallCreateRestaurantAgent ==
    /\ CanInvoke
    /\ \E restaurant_name \in RestaurantNameInputs, customer_info \in CustomerInputs :
       \E reads \in Readings(clock, IF mock_mode /\ Truthy(restaurant_name) THEN 1 ELSE 0) :
          Becomes(create_restaurant_agent(
              Begin(St(reads), "create_restaurant_agent", <<restaurant_name, customer_info>>),
              restaurant_name, customer_info))

CallMakeCall ==
    /\ CanInvoke
    /\ \E aid \in AgentIdInputs \cup DOMAIN agents_cache, phone_number \in PhoneInputs,
          call_context \in CallContextInputs :
       \E reads \in Readings(clock,
                 IF mock_mode /\ Truthy(aid) /\ _validate_phone_number(resolved_phone(phone_number))
                 THEN 2 ELSE 0) :
          Becomes(make_call(
              Begin(St(reads), "make_call", <<aid, phone_number, call_context>>),
              aid, phone_number, call_context))

CallGetCallStatus ==
    /\ CanInvoke
    /\ \E cid \in CallIdInputs :
          Becomes(get_call_status(Begin(St(<<>>), "get_call_status", <<cid>>), cid))

CallGetCallLogs ==
    /\ CanInvoke
    /\ \E aid \in LogFilterInputs, page \in PageInputs, page_size \in PageSizeInputs :
          Becomes(get_call_logs(
              Begin(St(<<>>), "get_call_logs", <<aid, Num(page), Num(page_size)>>),
              aid, page, page_size))

CallGetAgentDetails ==
    /\ CanInvoke
    /\ \E aid \in AgentIdInputs \cup DOMAIN agents_cache :
          Becomes(get_agent_details(Begin(St(<<>>), "get_agent_details", <<aid>>), aid))

CallTestApiConnection ==
    /\ CanInvoke
    /\ Becomes(test_api_connection(Begin(St(<<>>), "test_api_connection", <<>>)))

CallMakeRestaurantReservation ==
    /\ CanInvoke
    /\ \E restaurant_info \in RestaurantInputs, reservation_details \in ReservationInputs,
          customer_info \in CustomerInputs :
       \E reads \in Readings(clock,
                 IF mock_mode /\ reservation_validation(restaurant_info, reservation_details,
                                                        customer_info) = None
                 THEN 4 ELSE 0) :
          Becomes(make_restaurant_reservation(
              Begin(St(reads), "make_restaurant_reservation",
                    <<restaurant_info, reservation_details, customer_info>>),
              restaurant_info, reservation_details, customer_info))

\* The retry wrapper around an operation of the caller's.
CallRetryApiCall ==
    /\ CanInvoke
    /\ Becomes(retry_enter(Begin(St(<<>>), "_retry_api_call", <<>>), "operation", None))

\* api_func(*args, **kwargs) inside the retry wrapper returns or raises.
ApiCall ==
    /\ pc = "retry_call"
    /\ \E out \in Outcomes(api_func), reads \in Readings(clock, 1) :
          Becomes(retry_invoke(St(reads), out))

\* time.sleep(wait_time) inside the retry wrapper is over.
Sleep ==
    /\ pc = "retry_sleep"
    /\ \E reads \in Readings(clock, 1) : Becomes(retry_sleep(St(reads)))

\* make_call's pre-flight self.client.agent.get_agent(agent_id) returns or raises.
PreflightGetAgent ==
    /\ pc = "get_agent"
    /\ \E out \in Outcomes(api_func) :
          Becomes(make_call_after_preflight(
              [St(<<>>) EXCEPT !.ext_log = Append(@, logged(api_func, api_args))],
              preflight_verdict(out)))

\* get_agent_details' self.client.agent.get_agent(agent_id) returns or raises.
GetAgentDetailsCall ==
    /\ pc = "get_agent_details"
    /\ \E out \in Outcomes(api_func) :
          LET s == [St(<<>>) EXCEPT !.ext_log = Append(@, logged(api_func, api_args))]
          IN Becomes(IF out.kind = "return"
                     THEN Return(s, _handle_response(out.val))
                     ELSE Raise(s, out.val))

Next ==
    \/ CallCreateRestaurantAgent
    \/ CallMakeCall
    \/ CallGetCallStatus
    \/ CallGetCallLogs
    \/ CallGetAgentDetails
    \/ CallTestApiConnection
    \/ CallMakeRestaurantReservation
    \/ CallRetryApiCall
    \/ ApiCall
    \/ Sleep
    \/ PreflightGetAgent
    \/ GetAgentDetailsCall

Spec == Init /\ [][Next]_vars

\* A step of a method that is waiting for the outside: the client function it
\* invoked returns or raises, or its time.sleep ends.
Progress == ApiCall \/ Sleep \/ PreflightGetAgent \/ GetAgentDetailsCall

\* The service is single-threaded and its code runs on: every invocation of a
\* client function returns or raises, and every time.sleep ends.
FairSpec == Spec /\ WF_vars(Progress)

(***************************************************************************)
(* The phone validator on its own: _validate_phone_number applied to a     *)
(* phone string, or to None, on a service just constructed.                *)
(***************************************************************************)
PhoneOthers == {"+", "-"}

\* The strings of at most d digits and at most o other characters, in any order.
RECURSIVE PhoneStrings(_, _)
PhoneStrings(d, o) ==
    {<<>>}
        \cup (IF d > 0 THEN {<<"7">> \o cs : cs \in PhoneStrings(d - 1, o)} ELSE {})
        \cup (IF o > 0
              THEN UNION {{<<c>> \o cs : cs \in PhoneStrings(d, o - 1)} : c \in PhoneOthers}
              ELSE {})

ValidatorInputs ==
    {None} \cup {Chars(cs) : cs \in PhoneStrings(MaxPhoneDigits, MaxPhoneOther)}

PhoneInit ==
    /\ mock_mode \in BOOLEAN
    /\ agents_cache = EmptyCache
    /\ call_history = <<>>
    /\ clock = 0
    /\ pc = "_validate_phone_number"
    /\ \E phone \in ValidatorInputs : op = [name |-> "_validate_phone_number", args |-> <<phone>>]
    /\ api_func = "none"
    /\ api_args = None
    /\ attempt = 0
    /\ last_exception = None
    /\ agent_id = None
    /\ agent_data = None
    /\ target_phone = None
    /\ call_id = None
    /\ call_data = None
    /\ result = NoResult
    /\ trace = <<>>
    /\ preflight = "none"
    /\ ext_log = <<>>
    /\ returned_agents = {}
    /\ entry = [agents_cache |-> EmptyCache, call_history |-> <<>>, clock |-> 0]
    /\ nops = 0

\* self._validate_phone_number(phone) returns.
ValidatePhoneNumber ==
    /\ pc = "_validate_phone_number"
    /\ Becomes(Return(St(<<>>), Bool(_validate_phone_number(op.args[1]))))

PhoneNext == ValidatePhoneNumber

PhoneSpec == PhoneInit /\ [][PhoneNext]_vars

(***************************************************************************)
(* Properties.                                                             *)
(***************************************************************************)
IsPrefix(a, b) == Len(a) <= Len(b) /\ SubSeq(b, 1, Len(a)) = a
Idle == pc = "idle"
Returned_ == result.kind = "return"
RaisedOut == result.kind = "raise"
InOp(name) == op.name = name
LoggedFns == {ext_log[i].fn : i \in 1..Len(ext_log)}
LastFn == IF ext_log = <<>> THEN "none" ELSE ext_log[Len(ext_log)].fn
Invokes == {i \in 1..Len(trace) : trace[i].ev = "invoke"}
Sleeps == {i \in 1..Len(trace) : trace[i].ev = "sleep"}
FailedInvokes == {i \in Invokes : trace[i].out.kind = "raise"}

\* make_restaurant_reservation was invoked with inputs that lack a restaurant
\* name, a customer name or the reservation details, or give a phone that is
\* not valid.
NoRestaurantName == ~Truthy(op.args[1]) \/ ~Truthy(Get(op.args[1], "name"))
NoCustomerName == ~Truthy(op.args[3]) \/ ~Truthy(Get(op.args[3], "name"))
NoDetails == ~Truthy(op.args[2])
BadRestaurantPhone ==
    /\ ~NoRestaurantName
    /\ Truthy(Get(op.args[1], "phone"))
    /\ LET digits == SelectSeq(Get(op.args[1], "phone").v, IsDigit)
       IN Len(digits) < 10 \/ Len(digits) > 15
PassedValidation ==
    ~NoRestaurantName /\ ~NoCustomerName /\ ~NoDetails /\ ~BadRestaurantPhone

FailureTagged == Returned_ /\ IsDict(result.val) /\ Get(result.val, "success") = Bool(FALSE)
SuccessTagged == Returned_ /\ IsDict(result.val) /\ Get(result.val, "success") = Bool(TRUE)

\* The inputs a result of make_restaurant_reservation echoes.
EchoesInputs ==
    /\ Get(result.val, "restaurant") = op.args[1].v["name"]
    /\ Get(result.val, "customer") = Get(op.args[3], "name")
    /\ Get(result.val, "reservation") = op.args[2]

\* C1: once make_restaurant_reservation has passed its input validation it
\* never raises: whatever the client's functions return or raise, it returns a
\* result tagged success, or a result tagged failure that carries the message
\* of the error and echoes the restaurant, customer and reservation inputs.
C1_ReservationNeverRaises ==
    (Idle /\ InOp("make_restaurant_reservation") /\ PassedValidation) =>
        /\ Returned_
        /\ SuccessTagged \/ FailureTagged
        /\ FailureTagged =>
              /\ "error" \in DOMAIN result.val.v
              /\ Get(result.val, "error").t = "fstr"
              /\ (trace # <<>> /\ trace[Len(trace)].ev = "invoke"
                    /\ trace[Len(trace)].out.kind = "raise")
                    => Get(result.val, "error") = Fmt(trace[Len(trace)].out.val.msg)
              /\ EchoesInputs

\* A reservation whose dispatch failed on every retry came back failure-tagged.
C1_Witness ==
    /\ Idle /\ InOp("make_restaurant_reservation") /\ PassedValidation
    /\ FailureTagged
    /\ LastFn = "call.dispatch_call"
    /\ Cardinality(FailedInvokes) = max_retries
    /\ Get(result.val, "error") = Fmt(<<"connection refused">>)

\* C2 as stated: make_restaurant_reservation without a restaurant name returns
\* a failure-tagged result, with no agent cached and no call attempted.
C2_ReturnsFailureResult ==
    (Idle /\ InOp("make_restaurant_reservation") /\ NoRestaurantName) =>
        /\ FailureTagged
        /\ agents_cache = entry.agents_cache
        /\ ext_log = <<>>

\* C2, amended: make_restaurant_reservation without a restaurant name raises a
\* ValueError to the caller; no agent is cached, no call is recorded, no
\* client function is invoked and no mock identifier is made.
C2_RaisesValidationError ==
    (InOp("make_restaurant_reservation") /\ NoRestaurantName) =>
        /\ Idle
        /\ RaisedOut
        /\ result.val.type = "ValueError"
        /\ agents_cache = entry.agents_cache
        /\ call_history = entry.call_history
        /\ clock = entry.clock
        /\ ext_log = <<>>

C2_Witness ==
    /\ Idle /\ InOp("make_restaurant_reservation")
    /\ op.args[1] = Dict([name |-> Str("")])
    /\ ~NoCustomerName /\ ~NoDetails
    /\ RaisedOut
    /\ result.val = Exc("ValueError", <<"Restaurant info with name is required">>)

\* C3 as stated: when make_restaurant_reservation returns a failure-tagged
\* result, the agent cache and the call history are as they were when it was
\* invoked.
C3_FailureLeavesNoState ==
    (Idle /\ InOp("make_restaurant_reservation") /\ FailureTagged) =>
        /\ agents_cache = entry.agents_cache
        /\ call_history = entry.call_history

\* C3, amended: a failed orchestration is not rolled back.  When
\* make_restaurant_reservation returns a failure-tagged result, the cache and
\* the history are those of its invocation plus what its completed steps
\* stored: nothing if agent creation failed, the created agent if the dispatch
\* failed, the created agent and the one call record if the status fetch failed.
C3_FailureKeepsCompletedSteps ==
    (Idle /\ InOp("make_restaurant_reservation") /\ FailureTagged) =>
        /\ LastFn \in {"agent.create", "call.dispatch_call", "call.get_call_log"}
        /\ LastFn = "agent.create" =>
              /\ agents_cache = entry.agents_cache
              /\ call_history = entry.call_history
        /\ LastFn # "agent.create" =>
              \E aid \in DOMAIN agents_cache :
                 /\ aid \in returned_agents
                 /\ \A k \in DOMAIN agents_cache \ {aid} :
                       k \in DOMAIN entry.agents_cache /\ agents_cache[k] = entry.agents_cache[k]
                 /\ DOMAIN entry.agents_cache \subseteq DOMAIN agents_cache
        /\ LastFn = "call.dispatch_call" => call_history = entry.call_history
        /\ LastFn = "call.get_call_log" =>
              /\ Len(call_history) = Len(entry.call_history) + 1
              /\ IsPrefix(entry.call_history, call_history)

\* A reservation failed in its status fetch, after the agent was cached and the
\* call recorded.
C3_Witness ==
    /\ Idle /\ InOp("make_restaurant_reservation") /\ FailureTagged
    /\ LastFn = "call.get_call_log"
    /\ DOMAIN agents_cache # DOMAIN entry.agents_cache
    /\ Len(call_history) = Len(entry.call_history) + 1

\* C4: every agent identifier create_restaurant_agent has returned, called
\* directly or by make_restaurant_reservation, in mock or real mode, is a key of
\* the agent cache, whatever was invoked since.
C4_ReturnedAgentsStayCached == returned_agents \subseteq DOMAIN agents_cache

\* An agent was returned and cached, and a later invocation failed.
C4_Witness ==
    /\ Idle /\ nops = 2
    /\ returned_agents # {}
    /\ returned_agents \subseteq DOMAIN entry.agents_cache
    /\ RaisedOut

\* The call identifier of a record of the history.
RecordId(r) == Or(Or(Get(r, "id"), Get(r, "call_id")), Get(r, "uuid"))

\* In this step make_call returns to its caller: to the service's caller, or to
\* make_restaurant_reservation, which goes on with the call identifier.
MakeCallReturns ==
    \/ /\ op'.name = "make_call"
       /\ pc' = "idle"
       /\ result'.kind = "return"
    \/ /\ op'.name = "make_restaurant_reservation"
       /\ \/ call_id = None /\ call_id' # None
          \/ mock_mode /\ nops' = nops + 1 /\ result'.kind = "return"
                       /\ Get(result'.val, "success") = Bool(TRUE)

\* What make_call returned in this step: <<call_id, call_data>>.
MakeCallValue ==
    IF op'.name = "make_call"
    THEN result'.val.v
    ELSE IF call_id' # None
         THEN <<call_id', call_data'>>
         ELSE <<Get(result'.val, "call_id"), Get(result'.val, "call_data")>>

\* C5: the call history is append-only: every step leaves the history it found
\* as a prefix of the history it leaves; a make_call that returns extends the
\* history by exactly one record, at the end, which is its call data with a
\* timestamp, also when a record with the same call identifier is there already.
C5_HistoryAppendOnly ==
    [][/\ IsPrefix(call_history, call_history')
       /\ Len(call_history') <= Len(call_history) + 1
       /\ MakeCallReturns =>
             /\ Len(call_history') = Len(call_history) + 1
             /\ \E time \in clock..clock' :
                   call_history'[Len(call_history')] = With(MakeCallValue[2], "timestamp", Stamp(time))
             /\ RecordId(call_history'[Len(call_history')]) = MakeCallValue[1]
       /\ ~MakeCallReturns => call_history' = call_history]_vars

\* Two records of the history have the same call identifier.
C5_Witness ==
    /\ Len(call_history) = 2
    /\ RecordId(call_history[1]) = RecordId(call_history[2])
    /\ Idle /\ InOp("make_call") /\ Returned_

\* The invocations of the current retry wrapper all failed, and it is over.
WrapperExhausted ==
    /\ Idle /\ InOp("_retry_api_call")
    /\ Invokes # {}
    /\ FailedInvokes = Invokes

\* C6: the retry wrapper around an operation that fails every time invokes it
\* exactly max_retries (3) times and then raises the very exception the last
\* invocation raised; and no wrapper invokes its function more often than that.
C6_ExhaustedRetryRaisesLast ==
    /\ Cardinality(Invokes) <= 3
    /\ WrapperExhausted =>
          /\ Cardinality(Invokes) = 3
          /\ RaisedOut
          /\ \A i \in Invokes : (\A j \in Invokes : j <= i) => result.val = trace[i].out.val

\* The wrapper raised the last failure, which was not the first one's.
C6_Witness ==
    /\ WrapperExhausted
    /\ RaisedOut
    /\ trace[1].out.val # result.val
    /\ trace[Len(trace)].out.val = result.val

\* The k-th event of the trace that is a sleep (k from 1) is at this index.
SleepIndex(k) == CHOOSE i \in Sleeps : Cardinality({j \in Sleeps : j <= i}) = k

\* C7: the retry wrapper around an operation that fails k times (0 <= k < 3) and
\* then succeeds returns what that invocation returned, after k+1 invocations
\* and k waits, of 2 * 2^i seconds for the i-th (i from 0), each at least twice
\* the one before.
C7_RetryReturnsAfterBackoff ==
    (Idle /\ InOp("_retry_api_call") /\ Returned_) =>
        LET k == Cardinality(FailedInvokes)
        IN /\ k < 3
           /\ Cardinality(Invokes) = k + 1
           /\ trace[Len(trace)].ev = "invoke"
           /\ trace[Len(trace)].out = [kind |-> "return", val |-> result.val]
           /\ \A i \in FailedInvokes : i < Len(trace)
           /\ Cardinality(Sleeps) = k
           /\ \A i \in 1..k : trace[SleepIndex(i)].secs = 2 * (2 ^ (i - 1))
           /\ \A i \in 2..k : trace[SleepIndex(i)].secs >= 2 * trace[SleepIndex(i - 1)].secs

\* The operation failed twice, then returned, and the wrapper slept 2 s and 4 s.
C7_Witness ==
    /\ Idle /\ InOp("_retry_api_call") /\ Returned_
    /\ Cardinality(FailedInvokes) = 2
    /\ result.val = Str("value 2")
    /\ Cardinality(Sleeps) = 2

\* C8: in the retry wrapper every wait is strictly between two invocations: a
\* sleep follows a failed invocation, an invocation follows every sleep, and a
\* wrapper that is over did not end on a sleep; so an operation that fails
\* every time causes max_retries - 1 (2) waits.
C8_WaitsOnlyBetweenAttempts ==
    /\ \A i \in Sleeps :
          /\ i > 1
          /\ trace[i - 1].ev = "invoke"
          /\ trace[i - 1].out.kind = "raise"
          /\ i < Len(trace) => trace[i + 1].ev = "invoke"
          /\ i = Len(trace) => pc = "retry_call"
    /\ WrapperExhausted => Cardinality(Sleeps) = 2

\* The wrapper gave up after three failures and two waits.
C8_Witness ==
    /\ WrapperExhausted
    /\ Cardinality(Invokes) = 3
    /\ Cardinality(Sleeps) = 2
    /\ trace[2].ev = "sleep" /\ trace[4].ev = "sleep"

\* make_call was invoked with a phone number that is not empty and not valid.
MakeCallBadPhone ==
    /\ InOp("make_call")
    /\ Truthy(op.args[2])
    /\ LET digits == SelectSeq(op.args[2].v, IsDigit)
       IN Len(digits) < 10 \/ Len(digits) > 15

\* C9: make_call with a phone number that is not empty and fails the phone
\* validation raises a ValueError before anything else happens: the call
\* history is as it was and no function of the client is invoked, the
\* pre-flight get_agent and dispatch_call included.
C9_InvalidPhoneRaisesFirst ==
    MakeCallBadPhone =>
        /\ Idle
        /\ RaisedOut
        /\ result.val.type = "ValueError"
        /\ call_history = entry.call_history
        /\ ext_log = <<>>
        /\ trace = <<>>

\* In real mode make_call raised for the phone "12345", agent id given.
C9_Witness ==
    /\ MakeCallBadPhone /\ Idle /\ ~mock_mode
    /\ Truthy(op.args[1])
    /\ result = [kind |-> "raise", val |-> Exc("ValueError", <<"Invalid phone number: ", InvalidPhone>>)]

\* C10: make_restaurant_reservation fails fast when the restaurant name, the
\* customer name or the reservation details are missing, or a restaurant phone
\* is given and is not valid: it raises at once, no function of the client is
\* invoked, no mock agent or call is made, and the agent cache and the call
\* history are as they were.
C10_ReservationFailsFast ==
    (InOp("make_restaurant_reservation")
        /\ (NoRestaurantName \/ NoCustomerName \/ NoDetails \/ BadRestaurantPhone)) =>
        /\ Idle
        /\ RaisedOut
        /\ ext_log = <<>>
        /\ trace = <<>>
        /\ agents_cache = entry.agents_cache
        /\ call_history = entry.call_history
        /\ returned_agents \subseteq DOMAIN entry.agents_cache
        /\ clock = entry.clock

\* A reservation with a name, a customer, details and the phone "12345" raised.
C10_Witness ==
    /\ InOp("make_restaurant_reservation") /\ Idle
    /\ ~NoCustomerName /\ ~NoDetails
    /\ BadRestaurantPhone
    /\ result = [kind |-> "raise",
                 val |-> Exc("ValueError", <<"Invalid restaurant phone number: ", InvalidPhone>>)]

\* The operations of the service, and the functions of the external client.
ServiceOps ==
    {"create_restaurant_agent", "make_call", "get_call_status", "get_call_logs",
     "get_agent_details", "test_api_connection", "make_restaurant_reservation"}
ClientFns ==
    {"agent.create", "agent.get_agent", "call.dispatch_call", "call.get_call_log",
     "call.get_call_logs"}

\* C11: in mock mode no operation of the service invokes a function of the
\* external client: none has been invoked, and none is about to be.
C11_MockNeverCallsClient ==
    mock_mode =>
        /\ LoggedFns \cap ClientFns = {}
        /\ api_func \notin ClientFns
        /\ op.name \in ServiceOps =>
              /\ Idle
              /\ ext_log = <<>>
              /\ trace = <<>>

\* In mock mode a reservation succeeded after a call was made: the agent is
\* cached and both calls are recorded.
C11_Witness ==
    /\ mock_mode /\ Idle /\ nops = 2
    /\ InOp("make_restaurant_reservation") /\ SuccessTagged
    /\ Len(call_history) = 2
    /\ DOMAIN agents_cache # {}

\* The arguments of get_call_logs(): no agent filter, page 1, page_size 30.
DefaultLogArgs == <<None, Num(1), Num(30)>>

\* The records a result of get_call_logs carries that name agent `aid`.
LogRecordsOf(logs, aid) ==
    {i \in 1..Len(Get(logs, "data").v) : Get(Get(logs, "data").v[i], "agent_id") = aid}

\* C12: in mock mode a make_restaurant_reservation whose inputs pass the
\* validation returns a success result whose restaurant is the given name and
\* whose target_phone is the given restaurant phone, or the test number when
\* no phone (or an empty one) is given; and a get_call_logs() invoked right
\* after it returns a record whose agent_id is the result's agent_id.
C12_MockReservationEndToEnd ==
    /\ [](mock_mode /\ Idle /\ InOp("make_restaurant_reservation") /\ PassedValidation =>
            /\ SuccessTagged
            /\ Get(result.val, "restaurant") = Get(op.args[1], "name")
            /\ Get(result.val, "target_phone") =
                  (IF Truthy(Get(op.args[1], "phone")) THEN Get(op.args[1], "phone") ELSE test_phone)
            /\ Truthy(Get(result.val, "agent_id"))
            /\ call_history # <<>>
            /\ Get(call_history[Len(call_history)], "agent_id") = Get(result.val, "agent_id"))
    /\ [][(/\ mock_mode /\ Idle /\ InOp("make_restaurant_reservation") /\ SuccessTagged
           /\ op'.name = "get_call_logs" /\ op'.args = DefaultLogArgs) =>
             /\ pc' = "idle"
             /\ result'.kind = "return"
             /\ LogRecordsOf(result'.val, Get(result.val, "agent_id")) # {}]_vars

\* In mock mode get_call_logs() returned the record of the call that a
\* reservation at the given phone made just before, with the cached agent.
C12_Witness ==
    /\ mock_mode /\ Idle /\ nops = 2
    /\ InOp("get_call_logs") /\ op.args = DefaultLogArgs
    /\ Returned_
    /\ Len(Get(result.val, "data").v) = 1
    /\ Get(Get(result.val, "data").v[1], "phone_number") = ValidPhone
    /\ \E aid \in DOMAIN agents_cache : LogRecordsOf(result.val, aid) = {1}

\* make_call was invoked in real mode with an agent id and a phone that pass
\* its checks.
RealMakeCallPastChecks ==
    /\ ~mock_mode
    /\ InOp("make_call")
    /\ Truthy(op.args[1])
    /\ LET digits == SelectSeq(Or(op.args[2], test_phone).v, IsDigit)
       IN Len(digits) >= 10 /\ Len(digits) <= 15

\* The entries of ext_log for client function fn.
LoggedAt(fn) == {i \in 1..Len(ext_log) : ext_log[i].fn = fn}

\* C13: in real mode the pre-flight check of make_call never blocks the
\* dispatch.  A make_call with an agent id and a valid phone is about to make
\* the pre-flight get_agent, or it has made it and, whatever it gave (the agent,
\* an agent without voice configuration, no mapping, a failure), is about to
\* invoke dispatch_call or has invoked it, for that agent and that phone; and
\* the step that ends the pre-flight check always leads to the dispatch.
C13_PreflightNeverBlocksDispatch ==
    /\ [](RealMakeCallPastChecks =>
            \/ pc = "get_agent" /\ ext_log = <<>>
            \/ /\ LoggedAt("agent.get_agent") = {1}
               /\ ext_log[1].args = Tuple(<<op.args[1]>>)
               /\ \/ /\ pc = "retry_call" /\ attempt = 0
                     /\ api_func = "call.dispatch_call"
                     /\ Get(api_args, "agent_id") = op.args[1]
                     /\ Get(api_args, "to_number") = Or(op.args[2], test_phone)
                     /\ preflight \in {"verified", "verified_no_voice", "could_not_verify"}
                  \/ /\ LoggedAt("call.dispatch_call") = {2}
                     /\ Get(ext_log[2].args, "agent_id") = op.args[1]
                     /\ Get(ext_log[2].args, "to_number") = Or(op.args[2], test_phone))
    /\ [][pc = "get_agent" =>
             /\ pc' = "retry_call"
             /\ api_func' = "call.dispatch_call"
             /\ call_history' = call_history]_vars

\* The agent could not be verified, and dispatch_call has been invoked all the same.
C13_Witness ==
    /\ RealMakeCallPastChecks
    /\ preflight = "could_not_verify"
    /\ pc = "retry_sleep"
    /\ LoggedAt("call.dispatch_call") = {2}

\* The record a step appends to the history.
NewRecord == call_history'[Len(call_history')]

\* C14: every record of the call history has a non-empty call identifier,
\* under id, call_id or uuid, and a timestamp of the service's clock; a record
\* is stamped no earlier than the last reading of the clock before the step
\* that appends it, hence no earlier than the invocation of the make_call
\* that made it (in mock mode: no earlier than the reading its mock call id
\* is made of); and a make_call that returned left a last record stamped no
\* earlier than its invocation.  The provider's own fields, a timestamp
\* included, do not change that.
C14_RecordsIdentifiedAndStamped ==
    /\ [](/\ \A i \in 1..Len(call_history) :
                /\ Truthy(RecordId(call_history[i]))
                /\ Get(call_history[i], "timestamp").t = "timestr"
                /\ Get(call_history[i], "timestamp").v \in 0..clock
          /\ (Idle /\ InOp("make_call") /\ Returned_) =>
                Get(call_history[Len(call_history)], "timestamp").v >= entry.clock)
    /\ [][Len(call_history') > Len(call_history) =>
             /\ Get(NewRecord, "timestamp").v >= clock
             /\ Get(NewRecord, "timestamp").v <= clock'
             /\ mock_mode =>
                   \E time \in clock..Get(NewRecord, "timestamp").v :
                      Get(NewRecord, "id") = mock_call_id(time)]_vars

\* In real mode a record was made of a response that brought its own, older
\* timestamp and an empty id: it is stamped with the clock and identified by
\* its call_id.
C14_Witness ==
    /\ ~mock_mode /\ Idle /\ InOp("make_call") /\ Returned_
    /\ entry.clock = 1
    /\ Get(result.val.v[2], "timestamp") = Stamp(0)
    /\ Get(call_history[Len(call_history)], "timestamp") = Stamp(1)
    /\ Get(call_history[Len(call_history)], "id") = Str("")
    /\ RecordId(call_history[Len(call_history)]) = Str("call_2")

\* get_call_logs returned in mock mode.
MockLogsReturned == mock_mode /\ Idle /\ InOp("get_call_logs") /\ Returned_

\* The last k entries of a list.
Trailing(list, k) == SubSeq(list, Len(list) - k + 1, Len(list))

\* C15: in mock mode get_call_logs returns as data the trailing page_size
\* entries of the call history: the last min(page_size, length) records, in
\* the history's order and never more than page_size of them, whatever the
\* page; and a pagination summary whose total is the length of the history.
C15_MockLogsTrailingPage ==
    MockLogsReturned =>
        LET page_size == op.args[3].v
            data == Get(result.val, "data").v
        IN /\ page_size >= 0
           /\ data = Trailing(call_history, Min(page_size, Len(call_history)))
           /\ Len(data) <= page_size
           /\ Get(Get(result.val, "pagination"), "total") = Num(Len(call_history))
           /\ Get(Get(result.val, "pagination"), "page_size") = op.args[3]
           /\ Get(Get(result.val, "pagination"), "page") = op.args[2]

\* get_call_logs(page_size=0) returned the whole history, which is not empty.
C15_Witness ==
    /\ MockLogsReturned
    /\ op.args[3] = Num(0)
    /\ call_history # <<>>
    /\ Get(result.val, "data").v = call_history

\* The number of digits in a string of characters, wherever they are.
DigitCount(cs) == Cardinality({i \in 1..Len(cs) : cs[i] \in Digits})

\* The validator has returned.
ValidatorReturned == Idle /\ InOp("_validate_phone_number")

\* C16: the phone validator returns true exactly for the strings whose number
\* of digits is between 10 and 15, whatever plus signs and other characters
\* that are not digits stand between, before or after them; it returns false
\* for the empty string and for None.
C16_ValidatorCountsDigits ==
    ValidatorReturned =>
        /\ Returned_
        /\ result.val.t = "bool"
        /\ result.val.v <=>
              /\ op.args[1] # None
              /\ op.args[1].v # <<>>
              /\ DigitCount(op.args[1].v) >= 10
              /\ DigitCount(op.args[1].v) <= 15

\* A string of 15 digits with a plus sign in front and a hyphen inside is valid.
C16_Witness ==
    /\ ValidatorReturned
    /\ result.val = Bool(TRUE)
    /\ Len(op.args[1].v) = 17
    /\ DigitCount(op.args[1].v) = 15
    /\ op.args[1].v[1] = "+"
    /\ op.args[1].v[5] = "-"

\* The client functions of the orchestration's steps, in their order.
ReservationSteps ==
    <<"agent.create", "agent.get_agent", "call.dispatch_call", "call.get_call_log">>

\* The client functions invoked since the current method was invoked, in order.
LoggedSeq == [i \in 1..Len(ext_log) |-> ext_log[i].fn]

\* C17: the steps of one make_restaurant_reservation happen in a fixed order.
\* In real mode the client functions it invokes are, in this order and each at
\* most once (retries apart): agent.create, the pre-flight agent.get_agent,
\* call.dispatch_call, call.get_call_log.  The call is dispatched after
\* creation returned and cached an agent, with that agent's id; the status is
\* fetched after the dispatch returned and its call was recorded, for that
\* call's id; a reservation whose creation failed made no dispatch, one whose
\* dispatch failed fetched no status, and one that succeeded made every step.
\* In mock mode the same order shows in the result: the call names the agent
\* made before it, the status names the call, and their times are in order.
C17_ReservationStepsInOrder ==
    InOp("make_restaurant_reservation") =>
        /\ IsPrefix(LoggedSeq, ReservationSteps)
        /\ Len(ext_log) >= 2 =>
              /\ ext_log[2].args.v[1] \in returned_agents
              /\ ext_log[2].args.v[1] \in DOMAIN agents_cache
              /\ ~Idle => ext_log[2].args.v[1] = agent_id
        /\ (pc = "get_agent" \/ Len(ext_log) >= 2) =>
              /\ agents_cache # entry.agents_cache \/ returned_agents \cap DOMAIN entry.agents_cache # {}
              /\ ~Idle => agent_id \in returned_agents
        /\ Len(ext_log) >= 3 =>
              /\ Get(ext_log[3].args, "agent_id") = ext_log[2].args.v[1]
              /\ Get(ext_log[3].args, "to_number") = Or(Get(op.args[1], "phone"), test_phone)
        /\ ((pc \in {"retry_call", "retry_sleep"} /\ api_func = "call.get_call_log")
                \/ Len(ext_log) >= 4) =>
              /\ Len(call_history) = Len(entry.call_history) + 1
              /\ Get(call_history[Len(call_history)], "agent_id") \in {None, ext_log[2].args.v[1]}
              /\ ~Idle =>
                    /\ api_args = Tuple(<<RecordId(call_history[Len(call_history)])>>)
                    /\ call_id = RecordId(call_history[Len(call_history)])
        /\ Len(ext_log) >= 4 =>
              ext_log[4].args = Tuple(<<RecordId(call_history[Len(call_history)])>>)
        /\ (Idle /\ ~mock_mode /\ Returned_) =>
              /\ SuccessTagged => Len(ext_log) = 4
              /\ (FailureTagged /\ Len(ext_log) < 3) => call_history = entry.call_history
              /\ (FailureTagged /\ Len(ext_log) = 1) => agents_cache = entry.agents_cache
        /\ SuccessTagged =>
              /\ Get(result.val, "agent_id") \in DOMAIN agents_cache
              /\ Get(result.val, "agent_data") = agents_cache[Get(result.val, "agent_id")]
              /\ Len(call_history) = Len(entry.call_history) + 1
              /\ RecordId(call_history[Len(call_history)]) = Get(result.val, "call_id")
              /\ With(Get(result.val, "call_data"), "timestamp",
                      Get(call_history[Len(call_history)], "timestamp"))
                    = call_history[Len(call_history)]
              /\ Get(call_history[Len(call_history)], "timestamp").v
                    <= Get(result.val, "timestamp").v
        /\ (SuccessTagged /\ mock_mode) =>
              /\ Get(Get(result.val, "call_data"), "agent_id") = Get(result.val, "agent_id")
              /\ Get(Get(result.val, "call_status"), "id") = Get(result.val, "call_id")
              /\ \E t1 \in entry.clock..clock : \E t2 \in t1..clock :
                    /\ Get(result.val, "agent_id") = mock_agent_id(t1)
                    /\ Get(result.val, "call_id") = mock_call_id(t2)
                    /\ t2 <= Get(call_history[Len(call_history)], "timestamp").v

\* In real mode a reservation went through all four steps, for the agent the
\* provider made and the call it identified by uuid, and came back success-tagged.
C17_Witness ==
    /\ ~mock_mode /\ Idle /\ InOp("make_restaurant_reservation") /\ SuccessTagged
    /\ LoggedSeq = ReservationSteps
    /\ Get(ext_log[3].args, "agent_id") = Str("agent_A")
    /\ ext_log[4].args = Tuple(<<Str("call_3")>>)
    /\ Get(result.val, "call_id") = Str("call_3")

\* The invocations of the current retry wrapper that returned a response.
ReturnedInvokes == Invokes \ FailedInvokes

\* What a response carries under id once its envelope is off (None if it is no mapping).
ResponseId(response) ==
    IF IsDict(_handle_response(response)) THEN Get(_handle_response(response), "id") ELSE None

\* In real mode create_restaurant_agent has invoked agent.create and is over:
\* it was called directly, or by a reservation that went no further.
RealCreateEnded ==
    /\ ~mock_mode /\ Idle
    /\ InOp("create_restaurant_agent") \/ InOp("make_restaurant_reservation")
    /\ LastFn = "agent.create"

\* C18: in real mode, when agent.create fails on every retry or returns a
\* response without an identifier, create_restaurant_agent raises (out of a
\* reservation: into its failure result) and the agent cache is as it was; a
\* response is never retried: it is the last invocation of agent.create; and
\* while create_restaurant_agent runs, and when it raises, the cache is
\* unchanged: it gains the agent, under the identifier returned, only when
\* create_restaurant_agent returns.
C18_CreateFailureLeavesCache ==
    /\ api_func = "agent.create" =>
          /\ agents_cache = entry.agents_cache
          /\ ReturnedInvokes = {}
    /\ RealCreateEnded =>
          /\ Cardinality(ReturnedInvokes) <= 1
          /\ ReturnedInvokes \subseteq {Len(trace)}
          /\ ReturnedInvokes = {} =>
                /\ Cardinality(Invokes) = 3
                /\ agents_cache = entry.agents_cache
                /\ InOp("create_restaurant_agent") => result = Raised(trace[Len(trace)].out.val)
                /\ InOp("make_restaurant_reservation") => FailureTagged
          /\ (ReturnedInvokes # {} /\ ~Truthy(ResponseId(trace[Len(trace)].out.val))) =>
                /\ agents_cache = entry.agents_cache
                /\ InOp("create_restaurant_agent") =>
                      /\ RaisedOut
                      /\ result.val.type \in {"ValueError", "AttributeError"}
                /\ InOp("make_restaurant_reservation") => FailureTagged
          /\ (ReturnedInvokes # {} /\ Truthy(ResponseId(trace[Len(trace)].out.val))) =>
                /\ InOp("create_restaurant_agent")
                /\ result = Returned(Tuple(<<ResponseId(trace[Len(trace)].out.val),
                                             _handle_response(trace[Len(trace)].out.val)>>))
                /\ agents_cache = cache_put(entry.agents_cache,
                                            ResponseId(trace[Len(trace)].out.val),
                                            _handle_response(trace[Len(trace)].out.val))
    /\ (InOp("create_restaurant_agent") /\ agents_cache # entry.agents_cache) =>
          Idle /\ Returned_
    /\ (InOp("create_restaurant_agent") /\ Idle /\ RaisedOut) =>
          agents_cache = entry.agents_cache

\* agent.create failed once and then returned a response without an id:
\* create_restaurant_agent raised a ValueError after two invocations.
C18_Witness ==
    /\ RealCreateEnded /\ InOp("create_restaurant_agent")
    /\ Len(trace) = 3
    /\ trace[1].out.kind = "raise"
    /\ trace[3].out = Returned(Dict([name |-> Str("no id")]))
    /\ RaisedOut /\ result.val.type = "ValueError"
    /\ agents_cache = entry.agents_cache

\* Key k is present in mapping d with a value that is not empty.
HasValue(d, k) == k \in DOMAIN d.v /\ d.v[k] \notin {None, Str("")}

\* In real mode make_call, called directly, is over after dispatch_call
\* returned a mapping (flat, or under "json"): the normalized response.
RealDispatchAnswered ==
    /\ ~mock_mode /\ Idle /\ InOp("make_call")
    /\ LastFn = "call.dispatch_call"
    /\ ReturnedInvokes # {}
    /\ IsDict(_handle_response(trace[Len(trace)].out.val))

DispatchResponse == _handle_response(trace[Len(trace)].out.val)

\* C19: in real mode make_call takes the call identifier from the normalized
\* dispatch response by priority: the value under id if there is one that is
\* not empty, otherwise the value under call_id, otherwise the value under
\* uuid; it returns that identifier with the response and records the call
\* under it; when none of the three keys has a value it raises a ValueError
\* and the call history is as it was.
C19_CallIdByPriority ==
    RealDispatchAnswered =>
        LET r == DispatchResponse
        IN /\ HasValue(r, "id") =>
                 result = Returned(Tuple(<<r.v["id"], r>>))
           /\ (~HasValue(r, "id") /\ HasValue(r, "call_id")) =>
                 result = Returned(Tuple(<<r.v["call_id"], r>>))
           /\ (~HasValue(r, "id") /\ ~HasValue(r, "call_id") /\ HasValue(r, "uuid")) =>
                 result = Returned(Tuple(<<r.v["uuid"], r>>))
           /\ (~HasValue(r, "id") /\ ~HasValue(r, "call_id") /\ ~HasValue(r, "uuid")) =>
                 /\ RaisedOut
                 /\ result.val.type = "ValueError"
                 /\ call_history = entry.call_history
           /\ Returned_ =>
                 /\ Len(call_history) = Len(entry.call_history) + 1
                 /\ RecordId(call_history[Len(call_history)]) = result.val.v[1]

\* The response had an empty id, a call_id and no uuid: make_call returned the
\* call_id.
C19_Witness ==
    /\ RealDispatchAnswered
    /\ Get(DispatchResponse, "id") = Str("")
    /\ result.kind = "return"
    /\ result.val.v[1] = Str("call_2")

\* C20: provided every invocation of a client function returns or raises (and
\* every sleep ends), every make_restaurant_reservation comes back to its
\* caller: with a result when its inputs pass the validation, at once with the
\* validation's error otherwise.  On the way it enters the retry wrapper at
\* most once for each of agent.create, call.dispatch_call and
\* call.get_call_log, each wrapper invokes its function at most 3 times and
\* waits at most 2 times, and the pre-flight agent.get_agent is invoked at
\* most once.
C20_ReservationTerminates ==
    /\ [](InOp("make_restaurant_reservation") =>
            /\ LoggedFns \subseteq {ReservationSteps[i] : i \in 1..Len(ReservationSteps)}
            /\ \A fn \in LoggedFns : Cardinality(LoggedAt(fn)) = 1
            /\ Cardinality(Invokes) <= 3
            /\ Cardinality(Sleeps) <= 2
            /\ (Idle /\ PassedValidation) => Returned_)
    /\ (InOp("make_restaurant_reservation") /\ ~Idle)
          ~> (InOp("make_restaurant_reservation") /\ Idle)

\* A reservation came back after three failed attempts at agent.create, three
\* invocations and two waits.
C20_Witness ==
    /\ InOp("make_restaurant_reservation") /\ Idle /\ FailureTagged
    /\ LoggedSeq = <<"agent.create">>
    /\ Cardinality(Invokes) = 3
    /\ Cardinality(Sleeps) = 2

====
